---- MODULE Spec2Model ----
(***************************************************************************)
(* A model of the GraphQL/MongoDB user service: the connection singleton   *)
(* (database/connection.ts), the data access layer                         *)
(* (database/userService.ts), the resolvers (resolvers/index.ts) and the   *)
(* process host (index.ts).                                                *)
(*                                                                         *)
(* Every MongoDB command (insertOne, findOne, findOneAndUpdate, deleteOne, *)
(* find, createIndex) is one atomic step of the store.  A resolver that    *)
(* issues a single command is one action; createUser issues two commands   *)
(* (lines 56 and 58) separated by an await, so it is three actions and     *)
(* other requests interleave between them.                                 *)
(***************************************************************************)
EXTENDS Integers, Sequences, FiniteSets, TLC

VARIABLES
    hostPc,      \* position of startServer / shutdown in index.ts
    uriSet,      \* process.env.MONGODB_URI is set
    db,          \* connection.ts `db`     : "null" or "db"
    client,      \* connection.ts `client` : "null" or "client"
    clientOpen,  \* the MongoClient is connected and not yet closed
    listening,   \* the HTTP server has been bound to its port
    exitCode,    \* "none" while the process runs, else "0" or "1"
    indexes,     \* index names present on the users collection
    store,       \* the users collection: ObjectId -> document
    idCounter,   \* how many ObjectIds the driver has generated
    now,         \* the clock read by new Date(), in ms
    req          \* the in-flight createUser calls, per request slot

vars == <<hostPc, uriSet, db, client, clientOpen, listening, exitCode, indexes, store, idCounter, now, req>>

hostVars == <<hostPc, uriSet, db, client, clientOpen, listening, exitCode, indexes>>

-----------------------------------------------------------------------------
(* Bounds *)

\* The clock stops after MaxTime ticks.
MaxTime == 1

-----------------------------------------------------------------------------
(* JavaScript values *)

Undefined == [type |-> "undefined"]
Null == [type |-> "null"]
Str(s) == [type |-> "string", val |-> s]
Num(n) == [type |-> "number", val |-> n]
Bool(b) == [type |-> "boolean", val |-> b]

\* The outcome of a call: a returned value or a thrown (rejected) error.
Return(v) == [kind |-> "return", val |-> v]
Throw(e) == [kind |-> "throw", err |-> e]

-----------------------------------------------------------------------------
(* ObjectId: 12 bytes, written as 24 hexadecimal characters *)

\* A 24 character hex string (README.md, "Get User by ID").
ObjectIdHexLen == 24
ObjectIdBytes == ObjectIdHexLen \div 2

HexDigits == <<"0", "1", "2", "3", "4", "5", "6", "7", "8", "9", "a", "b", "c", "d", "e", "f">>
UpperHexDigits == <<"0", "1", "2", "3", "4", "5", "6", "7", "8", "9", "A", "B", "C", "D", "E", "F">>

\* The value of each hex character, either case.
HexValues ==
    [c \in {HexDigits[i] : i \in 1..16} \cup {UpperHexDigits[i] : i \in 1..16} |->
        IF \E i \in 1..16 : HexDigits[i] = c
        THEN (CHOOSE i \in 1..16 : HexDigits[i] = c) - 1
        ELSE (CHOOSE i \in 1..16 : UpperHexDigits[i] = c) - 1]

\* The value of one hex character; -1 for any other character.
HexVal(c) == IF c \in DOMAIN HexValues THEN HexValues[c] ELSE -1

\* The hex string of an ObjectId: two lower-case hex characters per byte.
HexOf(oid) ==
    [i \in 1..ObjectIdHexLen |->
        IF i % 2 = 1 THEN HexDigits[(oid[(i + 1) \div 2] \div 16) + 1]
                     ELSE HexDigits[(oid[i \div 2] % 16) + 1]]

ObjectIdIsValid(s) ==
    /\ Len(s) = ObjectIdHexLen
    /\ \A i \in 1..ObjectIdHexLen : HexVal(s[i]) >= 0

\* Parsing a string as an ObjectId: a 24 character hex string is decoded,
\* every other string throws.
ParseObjectId(s) ==
    IF ObjectIdIsValid(s)
    THEN Return([i \in 1..ObjectIdBytes |-> 16 * HexVal(s[2 * i - 1]) + HexVal(s[2 * i])])
    ELSE Throw("BSONError")

\* The ObjectIds the driver generates for inserted documents.
OidWithLastByte(b) == [i \in 1..ObjectIdBytes |-> IF i = ObjectIdBytes THEN b ELSE 0]
\* (a generated ObjectId ends in a counter the driver increments).
FreshIds == <<OidWithLastByte(171), OidWithLastByte(172)>>
AllFreshIds == {FreshIds[i] : i \in 1..Len(FreshIds)}

\* ObjectId.prototype.toString(), kept in a table for the generated ids.
HexOfFreshIds == [o \in AllFreshIds |-> HexOf(o)]
toHexString(oid) == IF oid \in AllFreshIds THEN HexOfFreshIds[oid] ELSE HexOf(oid)

ToUpper(s) == [i \in 1..Len(s) |-> IF HexVal(s[i]) >= 10 THEN UpperHexDigits[HexVal(s[i]) + 1] ELSE s[i]]

\* The id strings requests carry: the ids of documents as printed, a string
\* that is too short and one with a character that is no hex digit.
ShortId == <<"a", "b", "c">>
NonHexId == [i \in 1..ObjectIdHexLen |-> IF i = 1 THEN "z" ELSE "0"]
RawIds == {HexOfFreshIds[o] : o \in AllFreshIds} \cup {ShortId, NonHexId}

\* new ObjectId(id): the parse, kept in a table for the ids requests carry.
ParsedRawIds == [s \in RawIds |-> ParseObjectId(s)]
NewObjectId(s) == IF s \in RawIds THEN ParsedRawIds[s] ELSE ParseObjectId(s)

-----------------------------------------------------------------------------
(* Date: milliseconds since the epoch, printed by toISOString *)

Digit(n) == HexDigits[n + 1]
Pad2(n) == <<Digit(n \div 10), Digit(n % 10)>>
Pad3(n) == <<Digit(n \div 100), Digit((n \div 10) % 10), Digit(n % 10)>>

\* The ISO 8601 string of an instant of 1970-01-01.
IsoOf(ms) ==
    <<"1", "9", "7", "0", "-", "0", "1", "-", "0", "1", "T">>
        \o Pad2(ms \div 3600000) \o <<":">>
        \o Pad2((ms \div 60000) % 60) \o <<":">>
        \o Pad2((ms \div 1000) % 60) \o <<".">>
        \o Pad3(ms % 1000) \o <<"Z">>

\* Date.prototype.toISOString(), kept in a table for the instants the clock
\* reaches.
IsoOfClock == [ms \in 0..MaxTime |-> IsoOf(ms)]
toISOString(ms) == IF ms \in 0..MaxTime THEN IsoOfClock[ms] ELSE IsoOf(ms)

-----------------------------------------------------------------------------
(* The users collection *)

EmailIndex == "email_1"
CreatedAtIndex == "createdAt_-1"

EmptyStore == [o \in {} |-> Null]

\* BSON serialization with the driver's default ignoreUndefined = false: a
\* field whose value is undefined is written as null.
Serialize(v) == IF v = Undefined THEN Null ELSE v

WithId(oid, d) ==
    [_id |-> oid, name |-> d.name, email |-> d.email, age |-> d.age, createdAt |-> d.createdAt]

\* Some document other than `except` holds `email` (a unique index treats
\* null as a value like any other).
EmailTaken(st, email, except) ==
    \E o \in DOMAIN st : o # except /\ st[o].email = email

NotConnected(open) == ~open

\* collection.insertOne(newUser): the driver assigns the fresh _id `oid`.
insertOne(st, idx, open, oid, newUser) ==
    IF NotConnected(open)
    THEN [store |-> st, out |-> Throw("MongoNotConnectedError")]
    ELSE IF EmailIndex \in idx /\ EmailTaken(st, Serialize(newUser.email), oid)
    THEN [store |-> st, out |-> Throw("E11000 duplicate key")]
    ELSE [store |-> [o \in DOMAIN st \cup {oid} |->
                        IF o = oid
                        THEN [name |-> Serialize(newUser.name),
                              email |-> Serialize(newUser.email),
                              age |-> Serialize(newUser.age),
                              createdAt |-> newUser.createdAt]
                        ELSE st[o]],
          out |-> Return([insertedId |-> oid])]

\* collection.findOne({ _id: oid })
findOne(st, open, oid) ==
    IF NotConnected(open)
    THEN Throw("MongoNotConnectedError")
    ELSE IF oid \in DOMAIN st THEN Return(WithId(oid, st[oid])) ELSE Return(Null)

\* collection.findOneAndUpdate({ _id: oid }, { $set: fields }, { returnDocument: 'after' })
\* `fields` is a function from the field names to set to their new values.
findOneAndUpdate(st, idx, open, oid, fields) ==
    IF NotConnected(open)
    THEN [store |-> st, out |-> Throw("MongoNotConnectedError")]
    ELSE IF oid \notin DOMAIN st
    THEN [store |-> st, out |-> Return(Null)]
    ELSE IF /\ EmailIndex \in idx
            /\ "email" \in DOMAIN fields
            /\ EmailTaken(st, Serialize(fields["email"]), oid)
    THEN [store |-> st, out |-> Throw("E11000 duplicate key")]
    ELSE LET after == [k \in DOMAIN st[oid] |->
                          IF k \in DOMAIN fields THEN Serialize(fields[k]) ELSE st[oid][k]]
         IN  [store |-> [st EXCEPT ![oid] = after], out |-> Return(WithId(oid, after))]

\* collection.deleteOne({ _id: oid })
deleteOne(st, open, oid) ==
    IF NotConnected(open)
    THEN [store |-> st, out |-> Throw("MongoNotConnectedError")]
    ELSE IF oid \in DOMAIN st
    THEN [store |-> [o \in DOMAIN st \ {oid} |-> st[o]], out |-> Return([deletedCount |-> 1])]
    ELSE [store |-> st, out |-> Return([deletedCount |-> 0])]

\* collection.createIndex({ email: 1 }, { unique: true }): fails when the
\* collection already holds two documents with one email.
HasDuplicateEmail(st) ==
    \E o1, o2 \in DOMAIN st : o1 # o2 /\ st[o1].email = st[o2].email

-----------------------------------------------------------------------------
(* connection.ts *)

NoDb == "null"
TheDb == "db"
NoClient == "null"
TheClient == "client"

getDatabase(d) ==
    IF d = NoDb
    THEN Throw("Database not initialized. Call connectToDatabase() first.")
    ELSE Return(d)

-----------------------------------------------------------------------------
(* userService.ts *)

\* new UserService(): getDatabase() and db.collection('users').
UserServiceCtor(d) == getDatabase(d)

toUser(doc) ==
    [id |-> toHexString(doc._id),
     name |-> doc.name,
     email |-> doc.email,
     age |-> doc.age,
     createdAt |-> toISOString(doc.createdAt)]

getAllUsers(st, open) ==
    IF NotConnected(open)
    THEN Throw("MongoNotConnectedError")
    ELSE Return({toUser(WithId(o, st[o])) : o \in DOMAIN st})

\* try { ... } catch (error) { return fallback; }
Catch(outcome, fallback) ==
    IF outcome.kind = "throw" THEN Return(fallback) ELSE outcome

getUserByIdBody(st, open, id) ==
    LET oid == NewObjectId(id)
    IN  IF oid.kind = "throw" THEN oid
        ELSE LET doc == findOne(st, open, oid.val)
             IN  IF doc.kind = "throw" THEN doc
                 ELSE IF doc.val # Null THEN Return(toUser(doc.val)) ELSE Return(Null)

getUserById(st, open, id) == Catch(getUserByIdBody(st, open, id), Null)

\* createUser stamping the epoch instead of the current time.
newUserEpoch(input, time) ==
    [name |-> input.name, email |-> input.email, age |-> input.age, createdAt |-> 0]

\* createUser, lines 49-54: the document to insert.
newUserOf(input, time) ==
    [name |-> input.name, email |-> input.email, age |-> input.age, createdAt |-> time]

\* createUser, line 56.
createUserInsert(st, idx, open, oid, newUser) == insertOne(st, idx, open, oid, newUser)

\* createUser, lines 58-64.
createUserReread(st, open, insertedId) ==
    LET createdUser == findOne(st, open, insertedId)
    IN  IF createdUser.kind = "throw" THEN createdUser
        ELSE IF createdUser.val = Null THEN Throw("Failed to create user")
        ELSE Return(toUser(createdUser.val))

UpdateKeys == {"name", "email", "age"}

\* updateUser copying every field, omitted or not.
updateFieldsAll(input) == [k \in UpdateKeys |-> input[k]]

\* updateUser, lines 69-73: only the fields that are not undefined.
updateFieldsOf(input) ==
    [k \in {f \in UpdateKeys : input[f] # Undefined} |-> input[k]]

updateUserBody(st, idx, open, input) ==
    LET oid == NewObjectId(input.id)
    IN  IF oid.kind = "throw" THEN [store |-> st, out |-> oid]
        ELSE LET result == findOneAndUpdate(st, idx, open, oid.val, updateFieldsOf(input))
             IN  IF result.out.kind = "throw" THEN result
                 ELSE IF result.out.val # Null
                 THEN [store |-> result.store, out |-> Return(toUser(result.out.val))]
                 ELSE [store |-> result.store, out |-> Return(Null)]

updateUser(st, idx, open, input) ==
    LET r == updateUserBody(st, idx, open, input)
    IN  [store |-> r.store, out |-> Catch(r.out, Null)]

\* deleteUser testing deletedCount >= 0.
deleteUserBodyAlwaysTrue(st, open, id) ==
    LET oid == NewObjectId(id)
    IN  IF oid.kind = "throw" THEN [store |-> st, out |-> oid]
        ELSE LET result == deleteOne(st, open, oid.val)
             IN  IF result.out.kind = "throw" THEN result
                 ELSE [store |-> result.store, out |-> Return(Bool(result.out.val.deletedCount >= 0))]

deleteUserBody(st, open, id) ==
    LET oid == NewObjectId(id)
    IN  IF oid.kind = "throw" THEN [store |-> st, out |-> oid]
        ELSE LET result == deleteOne(st, open, oid.val)
             IN  IF result.out.kind = "throw" THEN result
                 ELSE [store |-> result.store, out |-> Return(Bool(result.out.val.deletedCount > 0))]

\* deleteUser without its try/catch.
deleteUserNoCatch(st, open, id) == deleteUserBody(st, open, id)

deleteUser(st, open, id) ==
    LET r == deleteUserBody(st, open, id)
    IN  [store |-> r.store, out |-> Catch(r.out, Bool(FALSE))]

\* createIndexes() without { unique: true }.
createIndexesNotUnique(st, idx) ==
    [indexes |-> idx \cup {CreatedAtIndex}, out |-> Return(Undefined)]

\* createIndexes(): a unique index on email (it cannot be built over
\* duplicates) and an index on createdAt; both are idempotent.
createIndexes(st, idx) ==
    IF HasDuplicateEmail(st) /\ EmailIndex \notin idx
    THEN [indexes |-> idx, out |-> Throw("E11000 duplicate key")]
    ELSE [indexes |-> idx \cup {EmailIndex, CreatedAtIndex}, out |-> Return(Undefined)]

-----------------------------------------------------------------------------
(* Requests *)

Requests == {"r1", "r2"}

AliceEmail == "alice@example.com"
BobEmail == "bob@example.com"

\* createUser(name: String!, email: String!, age: Int)
CreateInputs ==
    {[name |-> Str("Alice"), email |-> Str(AliceEmail), age |-> Num(25)],
     [name |-> Str("Alice"), email |-> Str(BobEmail), age |-> Undefined]}

\* updateUser(id: ID!, name: String, email: String, age: Int): a nullable
\* argument is omitted (undefined), an explicit null, or a value.
UpdateInputs ==
    [id : RawIds,
     name : {Undefined, Null, Str("Alicia")},
     email : {Undefined, Str(BobEmail)},
     age : {Undefined, Num(30)}]

Idle == [pc |-> "idle"]

\* The process runs and the HTTP server listens.
Serving == exitCode = "none" /\ listening

\* Query.users
Users ==
    /\ Serving
    /\ LET svc == UserServiceCtor(db)
       IN  svc.kind = "throw" \/ getAllUsers(store, clientOpen).kind \in {"return", "throw"}
    /\ UNCHANGED vars

\* Query.user
User(id) ==
    /\ Serving
    /\ LET svc == UserServiceCtor(db)
       IN  svc.kind = "throw" \/ getUserById(store, clientOpen, id).kind = "return"
    /\ UNCHANGED vars

\* Mutation.createUser up to its first await: the service is constructed and
\* the document built with the current time.
CreateUserCall(r, input) ==
    /\ Serving
    /\ req[r] = Idle
    /\ LET svc == UserServiceCtor(db)
       IN  IF svc.kind = "throw"
           THEN UNCHANGED req
           ELSE req' = [req EXCEPT ![r] =
                           [pc |-> "insert", input |-> input, newUser |-> newUserOf(input, now)]]
    /\ UNCHANGED <<hostVars, store, idCounter, now>>

\* createUser, line 56: insertOne. A rejected insert ends the request.
CreateUserInsert(r) ==
    /\ Serving
    /\ req[r].pc = "insert"
    /\ idCounter < Len(FreshIds)
    /\ LET oid == FreshIds[idCounter + 1]
           result == createUserInsert(store, indexes, clientOpen, oid, req[r].newUser)
       IN  IF result.out.kind = "throw"
           THEN /\ req' = [req EXCEPT ![r] = Idle]
                /\ UNCHANGED <<store, idCounter>>
           ELSE /\ store' = result.store
                /\ idCounter' = idCounter + 1
                /\ req' = [req EXCEPT ![r] =
                              [pc |-> "reread", input |-> req[r].input,
                               newUser |-> req[r].newUser,
                               insertedId |-> result.out.val.insertedId]]
    /\ UNCHANGED <<hostVars, now>>

\* createUser, lines 58-64: the re-read by the inserted id; the request ends
\* with the User or with 'Failed to create user'.
CreateUserReread(r) ==
    /\ Serving
    /\ req[r].pc = "reread"
    /\ createUserReread(store, clientOpen, req[r].insertedId).kind \in {"return", "throw"}
    /\ req' = [req EXCEPT ![r] = Idle]
    /\ UNCHANGED <<hostVars, store, idCounter, now>>

\* Mutation.updateUser
UpdateUser(input) ==
    /\ Serving
    /\ LET svc == UserServiceCtor(db)
       IN  IF svc.kind = "throw"
           THEN UNCHANGED store
           ELSE store' = updateUser(store, indexes, clientOpen, input).store
    /\ UNCHANGED <<hostVars, idCounter, now, req>>

\* Mutation.deleteUser
DeleteUser(id) ==
    /\ Serving
    /\ LET svc == UserServiceCtor(db)
       IN  IF svc.kind = "throw"
           THEN UNCHANGED store
           ELSE store' = deleteUser(store, clientOpen, id).store
    /\ UNCHANGED <<hostVars, idCounter, now, req>>

\* Time passes.
Tick ==
    /\ exitCode = "none"
    /\ now < MaxTime
    /\ now' = now + 1
    /\ UNCHANGED <<hostVars, store, idCounter, req>>

NextRequest ==
    \/ Users
    \/ \E id \in RawIds : User(id)
    \/ \E r \in Requests, input \in CreateInputs : CreateUserCall(r, input)
    \/ \E r \in Requests : CreateUserInsert(r)
    \/ \E r \in Requests : CreateUserReread(r)
    \/ \E input \in UpdateInputs : UpdateUser(input)
    \/ \E id \in RawIds : DeleteUser(id)
    \/ Tick

\* The state once startServer has connected, created the indexes and bound
\* the endpoint, on an empty collection.
Init ==
    /\ hostPc = "listening"
    /\ uriSet = TRUE
    /\ db = TheDb
    /\ client = TheClient
    /\ clientOpen = TRUE
    /\ listening = TRUE
    /\ exitCode = "none"
    /\ indexes = createIndexes(EmptyStore, {}).indexes
    /\ store = EmptyStore
    /\ idCounter = 0
    /\ now = 0
    /\ req = [r \in Requests |-> Idle]

Next == NextRequest

Spec == Init /\ [][Next]_vars

-----------------------------------------------------------------------------
(* index.ts: startServer and the shutdown handler *)

\* connectToDatabase() with MONGODB_URI unset: line 14 throws before a client
\* is made.
ConnectNoUri ==
    /\ hostPc = "start"
    /\ db = NoDb
    /\ ~uriSet
    /\ hostPc' = "catch"
    /\ UNCHANGED <<uriSet, listening, db, client, clientOpen, exitCode, indexes, store, idCounter, now, req>>

\* connectToDatabase(): the client is made and client.connect() succeeds.
ConnectOk ==
    /\ hostPc = "start"
    /\ db = NoDb
    /\ uriSet
    /\ client' = TheClient
    /\ clientOpen' = TRUE
    /\ db' = TheDb
    /\ hostPc' = "connected"
    /\ UNCHANGED <<uriSet, listening, exitCode, indexes, store, idCounter, now, req>>

\* connectToDatabase(): the client is made and client.connect() rejects.
ConnectFail ==
    /\ hostPc = "start"
    /\ db = NoDb
    /\ uriSet
    /\ client' = TheClient
    /\ hostPc' = "catch"
    /\ UNCHANGED <<uriSet, listening, db, clientOpen, exitCode, indexes, store, idCounter, now, req>>

\* startServer going on although createIndexes() failed.
AfterCreateIndexesIgnoringError(out) == "indexed"

\* Where startServer goes after createIndexes: on to the server set-up, or
\* to its catch block.
AfterCreateIndexes(out) == IF out.kind = "throw" THEN "catch" ELSE "indexed"

\* index.ts lines 19-20: new UserService() and createIndexes().
CreateIndexes ==
    /\ hostPc = "connected"
    /\ LET svc == UserServiceCtor(db)
           result == createIndexes(store, indexes)
       IN  IF svc.kind = "throw"
           THEN hostPc' = "catch" /\ UNCHANGED indexes
           ELSE indexes' = result.indexes /\ hostPc' = AfterCreateIndexes(result.out)
    /\ UNCHANGED <<uriSet, listening, db, client, clientOpen, exitCode, store, idCounter, now, req>>

\* index.ts lines 23-65: the Apollo server starts, the routes are mounted,
\* the HTTP server listens and the signal handlers are registered.
Listen ==
    /\ hostPc = "indexed"
    /\ hostPc' = "listening"
    /\ listening' = TRUE
    /\ UNCHANGED <<uriSet, db, client, clientOpen, exitCode, indexes, store, idCounter, now, req>>

\* The catch block, line 69: closeDatabase() closes the client if there is one.
AbortClose ==
    /\ hostPc = "catch"
    /\ IF client # NoClient
       THEN clientOpen' = FALSE /\ db' = NoDb /\ client' = NoClient
       ELSE UNCHANGED <<db, client, clientOpen>>
    /\ hostPc' = "aborting"
    /\ UNCHANGED <<uriSet, listening, exitCode, indexes, store, idCounter, now, req>>

\* The catch block, line 70: process.exit(1).
AbortExit ==
    /\ hostPc = "aborting"
    /\ exitCode' = "1"
    /\ hostPc' = "exited"
    /\ UNCHANGED <<uriSet, listening, db, client, clientOpen, indexes, store, idCounter, now, req>>

\* SIGINT or SIGTERM: shutdown() calls closeDatabase(), which calls
\* client.close() and awaits it (connection.ts line 43).
Signal ==
    /\ hostPc = "listening"
    /\ exitCode = "none"
    /\ hostPc' = IF client # NoClient THEN "closing" ELSE "closed"
    /\ UNCHANGED <<uriSet, listening, db, client, clientOpen, exitCode, indexes, store, idCounter, now, req>>

\* client.close() has released the connection; its promise resolves.
ClientClosed ==
    /\ hostPc = "closing"
    /\ clientOpen' = FALSE
    /\ hostPc' = "closed"
    /\ UNCHANGED <<uriSet, listening, db, client, exitCode, indexes, store, idCounter, now, req>>

\* closeDatabase() resumes after the await (connection.ts lines 44-45) and
\* shutdown() calls process.exit(0).
CloseDone ==
    /\ hostPc = "closed"
    /\ db' = NoDb
    /\ client' = NoClient
    /\ exitCode' = "0"
    /\ hostPc' = "exited"
    /\ UNCHANGED <<uriSet, listening, clientOpen, indexes, store, idCounter, now, req>>

\* GET /health
Health ==
    /\ Serving
    /\ UNCHANGED vars

NextHostStep ==
    \/ ConnectNoUri
    \/ ConnectOk
    \/ ConnectFail
    \/ CreateIndexes
    \/ Listen
    \/ AbortClose
    \/ AbortExit
    \/ Signal
    \/ ClientClosed
    \/ CloseDone
    \/ Health

\* Two documents with one email, written before the unique index existed.
LegacyStore ==
    [o \in {OidWithLastByte(1), OidWithLastByte(2)} |->
        [name |-> Str("Alice"), email |-> Str(AliceEmail), age |-> Null, createdAt |-> 0]]

\* The process as it starts, on an empty collection or on the legacy one.
InitHost ==
    /\ hostPc = "start"
    /\ uriSet \in BOOLEAN
    /\ db = NoDb
    /\ client = NoClient
    /\ clientOpen = FALSE
    /\ listening = FALSE
    /\ exitCode = "none"
    /\ indexes = {}
    /\ store \in {EmptyStore, LegacyStore}
    /\ idCounter = 0
    /\ now = 0
    /\ req = [r \in Requests |-> Idle]

NextHost == NextHostStep \/ NextRequest

SpecHost == InitHost /\ [][NextHost]_vars

-----------------------------------------------------------------------------
(* Properties *)

ValidOid(id) == NewObjectId(id).kind = "return"
OidOf(id) == NewObjectId(id).val
Malformed(id) == NewObjectId(id).kind = "throw"

\* The ObjectId the next insert is given, while the pool lasts.
NextOid == FreshIds[idCounter + 1]

\* Date.parse of a string printed by toISOString.
DigitAt(s, i) == HexVal(s[i])
IsoToMillis(s) ==
    (10 * DigitAt(s, 12) + DigitAt(s, 13)) * 3600000
        + (10 * DigitAt(s, 15) + DigitAt(s, 16)) * 60000
        + (10 * DigitAt(s, 18) + DigitAt(s, 19)) * 1000
        + 100 * DigitAt(s, 21) + 10 * DigitAt(s, 22) + DigitAt(s, 23)

\* C1: with the indexes of createIndexes in place, no two documents have the
\* same email; a createUser whose email an existing document holds is
\* rejected with an error and inserts nothing; and of two createUser calls in
\* flight with one email at most one insert succeeds, in either order.
C1_UniqueEmail ==
    /\ ~HasDuplicateEmail(store)
    /\ idCounter < Len(FreshIds) =>
        \A input \in CreateInputs :
            LET r == createUserInsert(store, indexes, clientOpen, NextOid, newUserOf(input, now))
            IN  EmailTaken(store, input.email, NextOid) =>
                    r.out.kind = "throw" /\ r.store = store
    /\ idCounter + 1 < Len(FreshIds) =>
        \A r1, r2 \in Requests :
            (/\ r1 # r2
             /\ req[r1].pc = "insert"
             /\ req[r2].pc = "insert"
             /\ req[r1].newUser.email = req[r2].newUser.email) =>
                LET a == createUserInsert(store, indexes, clientOpen, NextOid, req[r1].newUser)
                    b == createUserInsert(a.store, indexes, clientOpen,
                                          FreshIds[idCounter + 2], req[r2].newUser)
                IN  ~(a.out.kind = "return" /\ b.out.kind = "return")

\* A createUser is about to insert an email that a document already holds.
C1_Witness ==
    \E r \in Requests :
        /\ req[r].pc = "insert"
        /\ idCounter < Len(FreshIds)
        /\ EmailTaken(store, req[r].newUser.email, NextOid)

\* C2: an updateUser of an existing document to the email of another
\* document ends with an error, and changes nothing.
C2_UpdateCollisionPropagates ==
    \A input \in UpdateInputs :
        (/\ ValidOid(input.id)
         /\ OidOf(input.id) \in DOMAIN store
         /\ input.email # Undefined
         /\ EmailTaken(store, input.email, OidOf(input.id))) =>
            LET r == updateUser(store, indexes, clientOpen, input)
            IN  r.out.kind = "throw" /\ r.store = store

\* C3: for an id that does not parse, getUserById returns null, updateUser
\* returns null and deleteUser returns false; none throws and none changes
\* the collection.
C3_MalformedIdAbsorbed ==
    \A id \in RawIds :
        Malformed(id) =>
            /\ getUserById(store, clientOpen, id) = Return(Null)
            /\ \A input \in UpdateInputs :
                input.id = id =>
                    LET r == updateUser(store, indexes, clientOpen, input)
                    IN  r.out = Return(Null) /\ r.store = store
            /\ LET r == deleteUser(store, clientOpen, id)
               IN  r.out = Return(Bool(FALSE)) /\ r.store = store

\* Both documents exist and an id that does not parse is at hand.
C3_Witness ==
    /\ Cardinality(DOMAIN store) = 2
    /\ \E id \in RawIds : Malformed(id) /\ Len(id) = ObjectIdHexLen

\* The state part of C4: what an updateUser that returns a User has done.
C4_UpdateFrameState ==
    \A input \in UpdateInputs :
        LET r == updateUser(store, indexes, clientOpen, input)
        IN  (r.out.kind = "return" /\ r.out.val # Null) =>
                /\ ValidOid(input.id)
                /\ LET oid == OidOf(input.id)
                   IN  /\ oid \in DOMAIN store
                       /\ DOMAIN r.store = DOMAIN store
                       /\ \A o \in DOMAIN store \ {oid} : r.store[o] = store[o]
                       /\ LET before == store[oid]
                              after == r.store[oid]
                          IN  /\ \A k \in UpdateKeys :
                                    after[k] = IF input[k] # Undefined THEN input[k] ELSE before[k]
                              /\ after.createdAt = before.createdAt
                              /\ r.out.val = toUser(WithId(oid, after))

\* The step part of C4.
C4_CreatedAtKept ==
    \A o \in DOMAIN store : o \in DOMAIN store' => store'[o].createdAt = store[o].createdAt

\* C4: an updateUser that returns a User has set exactly the fields given in
\* its input, left the other fields, the id and createdAt of that document
\* and every other document as they were, and returns the document as it is
\* afterwards; and no step changes the createdAt of a document that it keeps.
C4_UpdateFrame == [](C4_UpdateFrameState) /\ [][C4_CreatedAtKept]_vars

\* A document created with age 25 has been renamed and kept its email and age
\* while time has passed since its creation.
C4_Witness ==
    \E o \in DOMAIN store :
        /\ store[o].name = Str("Alicia")
        /\ store[o].email = Str(AliceEmail)
        /\ store[o].age = Num(25)
        /\ store[o].createdAt < now

C6_DeleteOnce ==
    \A id \in RawIds :
        LET r == deleteUser(store, clientOpen, id)
            exists == ValidOid(id) /\ OidOf(id) \in DOMAIN store
        IN  /\ r.out \in {Return(Bool(TRUE)), Return(Bool(FALSE))}
            /\ r.out = Return(Bool(TRUE)) <=> exists
            /\ r.out = Return(Bool(TRUE)) <=>
                    Cardinality(DOMAIN store) - Cardinality(DOMAIN r.store) = 1
            /\ exists =>
                    /\ DOMAIN r.store = DOMAIN store \ {OidOf(id)}
                    /\ \A o \in DOMAIN r.store : r.store[o] = store[o]
            /\ ~exists => r.store = store
            /\ deleteUser(r.store, clientOpen, id).out = Return(Bool(FALSE))
            /\ deleteUser(r.store, clientOpen, id).store = r.store
            /\ getUserById(r.store, clientOpen, id) = Return(Null)

\* One of two created documents has been deleted.
C6_Witness ==
    /\ idCounter = 2
    /\ Cardinality(DOMAIN store) = 1

\* C7: the endpoint is bound only after the connection is made and both
\* indexes exist; once startServer has failed the endpoint is never bound,
\* and the process then exits only with status 1, the client closed.
C7_StartupOrder ==
    /\ listening => {EmailIndex, CreatedAtIndex} \subseteq indexes
    /\ (listening /\ hostPc = "listening") => (db = TheDb /\ clientOpen)
    /\ hostPc \in {"catch", "aborting"} => (~listening /\ exitCode = "none")
    /\ exitCode = "1" => (~listening /\ ~clientOpen /\ db = NoDb)
    /\ (hostPc = "exited" /\ ~listening) => exitCode = "1"

\* createIndexes() failed on a collection with a duplicated email and the
\* process exited with status 1.
C7_Witness ==
    /\ exitCode = "1"
    /\ HasDuplicateEmail(store)
    /\ indexes = {}

\* C8: while requests are served, new UserService() succeeds only if the
\* client is connected.
C8_NoStaleHandle ==
    Serving => (UserServiceCtor(db).kind = "return" => clientOpen)

\* C9: a createUser that has inserted its document returns a User with the
\* name, email and age of its input, whatever other requests did meanwhile.
C9_CreateReturnsInserted ==
    \A r \in Requests :
        req[r].pc = "reread" =>
            LET made == createUserReread(store, clientOpen, req[r].insertedId)
            IN  /\ made.kind = "return"
                /\ made.val.name = req[r].input.name
                /\ made.val.email = req[r].input.email
                /\ made.val.age = Serialize(req[r].input.age)

\* C10: every document has a name and an email that are not null.
C10_RequiredFields ==
    \A o \in DOMAIN store : store[o].name # Null /\ store[o].email # Null

====
